---- MODULE Spec2Model ----
(***************************************************************************)
(* Model of backend/backend_app.py: an in-memory collection of posts       *)
(* (POSTS) served by five request handlers.  Strings that the code         *)
(* lower-cases or compares are sequences of character codes, so that       *)
(* str.lower() and the ordering of str are computed, not assumed.          *)
(***************************************************************************)
EXTENDS Integers, Sequences, FiniteSets, TLC

VARIABLES POSTS, op, req, status, body, assigned

vars == <<POSTS, op, req, status, body, assigned>>

\* Largest id a create may hand out in the model (the code has no limit).
MaxId == 3

----------------------------------------------------------------------------
\* Strings as sequences of character codes.

S_empty == <<>>
S_a == <<97>>
S_A == <<65>>
S_title == <<116, 105, 116, 108, 101>>
S_content == <<99, 111, 110, 116, 101, 110, 116>>
S_id == <<105, 100>>
S_asc == <<97, 115, 99>>
S_desc == <<100, 101, 115, 99>>
S_DESC == <<68, 69, 83, 67>>
S_up == <<117, 112>>
S_FirstPost == <<70, 105, 114, 115, 116, 32, 112, 111, 115, 116>>
S_FirstContent == <<84, 104, 105, 115, 32, 105, 115, 32, 116, 104, 101, 32, 102, 105, 114, 115, 116, 32, 112, 111, 115, 116, 46>>
S_SecondPost == <<83, 101, 99, 111, 110, 100, 32, 112, 111, 115, 116>>
S_SecondContent == <<84, 104, 105, 115, 32, 105, 115, 32, 116, 104, 101, 32, 115, 101, 99, 111, 110, 100, 32, 112, 111, 115, 116, 46>>

\* str.lower() on ASCII: "A".."Z" (65..90) map to "a".."z".
LowerChar(c) == IF c >= 65 /\ c <= 90 THEN c + 32 ELSE c

lower(s) == [i \in 1..Len(s) |-> LowerChar(s[i])]

\* s < t for Python str: code point order, a proper prefix is smaller.
RECURSIVE StrLess(_, _)
StrLess(s, t) ==
    IF t = <<>> THEN FALSE
    ELSE IF s = <<>> THEN TRUE
    ELSE IF s[1] /= t[1] THEN s[1] < t[1]
    ELSE StrLess(Tail(s), Tail(t))

\* q in s for Python str: q occurs as a contiguous substring of s.
StrIn(q, s) ==
    \E i \in 0..Len(s) :
        /\ i + Len(q) <= Len(s)
        /\ \A k \in 1..Len(q) : s[i + k] = q[k]

\* Truthiness of a Python str: the empty string is falsy.
Truthy(s) == s /= <<>>

\* dict.get(key, default)
Get(d, key, default) == IF key \in DOMAIN d THEN d[key] ELSE default

----------------------------------------------------------------------------
\* Request inputs.

TitleInputs == {S_empty, S_a, S_A}
ContentInputs == {S_a}

\* JSON bodies: any subset of the keys title, content, with string values.
Bodies ==
    UNION { { f \in [S -> TitleInputs \cup ContentInputs] :
                /\ ("title" \in S => f["title"] \in TitleInputs)
                /\ ("content" \in S => f["content"] \in ContentInputs) } :
            S \in SUBSET {"title", "content"} }

SortInputs == {S_title, S_content, S_id, S_empty}
DirectionInputs == {S_asc, S_desc, S_DESC, S_up}

\* Query strings of GET /api/posts: sort and direction both optional.
ListArgs ==
    UNION { { f \in [S -> SortInputs \cup DirectionInputs] :
                /\ ("sort" \in S => f["sort"] \in SortInputs)
                /\ ("direction" \in S => f["direction"] \in DirectionInputs) } :
            S \in SUBSET {"sort", "direction"} }

\* Query strings of GET /api/posts/search.
SearchArgs == UNION { [S -> {S_A}] : S \in SUBSET {"title", "content"} }

\* Ids a path may carry: every id the model can hold, and one it cannot.
PathIds == 1..(MaxId + 1)

----------------------------------------------------------------------------
\* The seeded collection.

SeedPosts ==
    << [id |-> 1, title |-> S_FirstPost, content |-> S_FirstContent],
       [id |-> 2, title |-> S_SecondPost, content |-> S_SecondContent] >>

Init ==
    /\ POSTS = SeedPosts
    /\ op = "init"
    /\ req = <<>>
    /\ status = 0
    /\ body = <<>>
    /\ assigned = {1, 2}

----------------------------------------------------------------------------
\* sorted(POSTS, key=lambda post: post[sort_field].lower(), reverse=reverse)

Reverse(s) == [i \in 1..Len(s) |-> s[Len(s) + 1 - i]]

\* post[sort_field], the field being named by a string of the request.
PostField(post, sort_field) ==
    IF sort_field = S_title THEN post.title ELSE post.content

SortKey(post, sort_field) == lower(PostField(post, sort_field))

\* x placed into the sorted list t behind every element whose key is not
\* greater than its own.
InsertSorted(t, x, sort_field) ==
    LET p == Cardinality({ j \in 1..Len(t) :
                 ~ StrLess(SortKey(x, sort_field), SortKey(t[j], sort_field)) })
    IN  SubSeq(t, 1, p) \o <<x>> \o SubSeq(t, p + 1, Len(t))

\* A stable ascending sort: elements are inserted in their original order.
RECURSIVE StableSort(_, _)
StableSort(s, sort_field) ==
    IF s = <<>> THEN <<>>
    ELSE InsertSorted(StableSort(SubSeq(s, 1, Len(s) - 1), sort_field),
                      s[Len(s)], sort_field)

\* sorted with reverse taken as "sort ascending, then reverse the result".
sorted_ReverseResult(posts, sort_field, reverse) ==
    IF reverse THEN Reverse(StableSort(posts, sort_field))
    ELSE StableSort(posts, sort_field)

\* list.sort with reverse: the list is reversed, sorted ascending and reversed
\* again, which keeps elements with equal keys in their original order.
sorted(posts, sort_field, reverse) ==
    IF reverse THEN Reverse(StableSort(Reverse(posts), sort_field))
    ELSE StableSort(posts, sort_field)

----------------------------------------------------------------------------
\* GET /api/posts

valid_sort_fields == {S_title, S_content}

get_posts ==
    \E args \in ListArgs :
        LET has_sort == "sort" \in DOMAIN args /\ Truthy(args["sort"])
            sort_direction == lower(Get(args, "direction", S_asc))
        IN  /\ op' = "get_posts"
            /\ req' = [args |-> args]
            /\ IF has_sort /\ args["sort"] \notin valid_sort_fields
               THEN /\ status' = 400
                    /\ body' = [error |-> "Invalid sort field"]
               ELSE IF sort_direction \notin {S_asc, S_desc}
               THEN /\ status' = 400
                    /\ body' = [error |-> "Invalid sort direction"]
               ELSE /\ status' = 200
                    /\ body' = IF has_sort
                               THEN sorted(POSTS, args["sort"], sort_direction = S_desc)
                               ELSE POSTS
            /\ UNCHANGED <<POSTS, assigned>>

\* GET /api/posts/search

Matches(post, title_query, content_query) ==
    /\ (IF Truthy(title_query) THEN StrIn(title_query, lower(post.title)) ELSE TRUE)
    /\ (IF Truthy(content_query) THEN StrIn(content_query, lower(post.content)) ELSE TRUE)

search_posts ==
    \E args \in SearchArgs :
        LET title_query == lower(Get(args, "title", S_empty))
            content_query == lower(Get(args, "content", S_empty))
        IN  /\ op' = "search_posts"
            /\ req' = [args |-> args]
            /\ status' = 200
            /\ body' = SelectSeq(POSTS, LAMBDA post : Matches(post, title_query, content_query))
            /\ UNCHANGED <<POSTS, assigned>>

\* POST /api/posts

\* The check "field not in data" alone, an empty value passing.
MissingFields_AbsentOnly(data) ==
    SelectSeq(<<"title", "content">>, LAMBDA field : field \notin DOMAIN data)

MissingFields(data) ==
    SelectSeq(<<"title", "content">>,
              LAMBDA field : field \notin DOMAIN data \/ ~ Truthy(data[field]))

\* The new id taken from the length of the list.
NewId_Length(posts) == Len(posts) + 1

NewId(posts) == IF posts /= <<>> THEN posts[Len(posts)].id + 1 ELSE 1

\* POSTS.insert(0, new_post) in place of POSTS.append(new_post).
AppendPost_Front(posts, new_post) == <<new_post>> \o posts

AppendPost(posts, new_post) == Append(posts, new_post)

add_post ==
    \E data \in Bodies :
        LET missing_fields == MissingFields(data)
            new_id == NewId(POSTS)
            new_post == [id |-> new_id, title |-> data["title"], content |-> data["content"]]
        IN  /\ op' = "add_post"
            /\ req' = [data |-> data]
            /\ IF missing_fields /= <<>>
               THEN /\ status' = 400
                    /\ body' = [error |-> "Missing required fields",
                                missing_fields |-> missing_fields]
                    /\ UNCHANGED <<POSTS, assigned>>
               ELSE /\ new_id <= MaxId
                    /\ POSTS' = AppendPost(POSTS, new_post)
                    /\ assigned' = assigned \cup {new_id}
                    /\ status' = 201
                    /\ body' = new_post

\* DELETE /api/posts/<post_id>

FindPost(posts, post_id) == { i \in 1..Len(posts) : posts[i].id = post_id }

\* Removal by moving the last post into the place of the removed one.
RemoveId_SwapLast(posts, post_id) ==
    LET k == CHOOSE i \in 1..Len(posts) : posts[i].id = post_id
        moved == [posts EXCEPT ![k] = posts[Len(posts)]]
    IN  SubSeq(moved, 1, Len(posts) - 1)

\* Removal of every post up to and including the one with the id.
RemoveId_UpTo(posts, post_id) == SelectSeq(posts, LAMBDA post : post.id > post_id)

RemoveId(posts, post_id) == SelectSeq(posts, LAMBDA post : post.id /= post_id)

delete_post ==
    \E post_id \in PathIds :
        /\ op' = "delete_post"
        /\ req' = [post_id |-> post_id]
        /\ IF FindPost(POSTS, post_id) = {}
           THEN /\ status' = 404
                /\ body' = [error |-> "not found", id |-> post_id]
                /\ UNCHANGED POSTS
           ELSE /\ POSTS' = RemoveId(POSTS, post_id)
                /\ status' = 200
                /\ body' = [message |-> "deleted", id |-> post_id]
        /\ UNCHANGED assigned

\* PUT /api/posts/<post_id>

\* data.get(field, "") in place of data.get(field, post[field]).
UpdateFields_DefaultEmpty(post, data) ==
    [post EXCEPT !.title = Get(data, "title", S_empty),
                 !.content = Get(data, "content", S_empty)]

UpdateFields(post, data) ==
    [post EXCEPT !.title = Get(data, "title", @), !.content = Get(data, "content", @)]

update_post ==
    \E post_id \in PathIds, data \in Bodies :
        /\ op' = "update_post"
        /\ req' = [post_id |-> post_id, data |-> data]
        /\ IF FindPost(POSTS, post_id) = {}
           THEN /\ status' = 404
                /\ body' = [error |-> "not found", id |-> post_id]
                /\ UNCHANGED POSTS
           ELSE LET k == CHOOSE i \in FindPost(POSTS, post_id) :
                             \A j \in FindPost(POSTS, post_id) : i <= j
                IN  /\ POSTS' = [POSTS EXCEPT ![k] = UpdateFields(POSTS[k], data)]
                    /\ status' = 200
                    /\ body' = POSTS'[k]
        /\ UNCHANGED assigned

Next ==
    \/ get_posts
    \/ search_posts
    \/ add_post
    \/ delete_post
    \/ update_post

Spec == Init /\ [][Next]_vars

----------------------------------------------------------------------------
\* Properties.

Ids(posts) == [i \in 1..Len(posts) |-> posts[i].id]

\* A field of a JSON body counts as missing when absent or the empty string.
Lacks(data, field) == field \notin DOMAIN data \/ data[field] = S_empty

\* C1: no two posts of the collection have the same id.
C1_UniqueIds ==
    \A i, j \in 1..Len(POSTS) : i /= j => POSTS[i].id /= POSTS[j].id

\* Id 2 was deleted and a later create produced a post next to post 1.
C1_Witness ==
    /\ op = "add_post" /\ status = 201
    /\ Ids(POSTS) = <<1, 2>>
    /\ POSTS[2].title = S_a

\* C2: the id given by a successful create is greater than every id given
\* before (seeded ids included), so no id is ever handed out twice.
C2_IdsNeverReissued ==
    [][(op' = "add_post" /\ status' = 201) => \A i \in assigned : body'.id > i]_vars

C4_FieldsNonEmpty ==
    \A i \in 1..Len(POSTS) : POSTS[i].title /= S_empty /\ POSTS[i].content /= S_empty

\* C5: a create whose body lacks title or content, or gives one as the empty
\* string, returns 400 naming exactly those fields, and changes nothing.
C5_CreateRejected ==
    [][(op' = "add_post" /\ (Lacks(req'.data, "title") \/ Lacks(req'.data, "content")))
         => /\ status' = 400
            /\ body'.missing_fields =
                   (IF Lacks(req'.data, "title") THEN <<"title">> ELSE <<>>)
                   \o (IF Lacks(req'.data, "content") THEN <<"content">> ELSE <<>>)
            /\ POSTS' = POSTS
            /\ assigned' = assigned]_vars

\* A body with an empty title and no content was rejected with both named.
C5_Witness ==
    /\ op = "add_post" /\ status = 400
    /\ DOMAIN req.data = {"title"} /\ req.data["title"] = S_empty
    /\ body.missing_fields = <<"title", "content">>

\* C6: delete of a stored id returns 200 and removes exactly that record, the
\* others keeping their order; delete of an unknown id returns 404 and
\* changes nothing.
C6_DeleteFrame ==
    [][op' = "delete_post"
         => IF \E k \in 1..Len(POSTS) : POSTS[k].id = req'.post_id
            THEN /\ status' = 200
                 /\ \E k \in 1..Len(POSTS) :
                        /\ POSTS[k].id = req'.post_id
                        /\ POSTS' = SubSeq(POSTS, 1, k - 1) \o SubSeq(POSTS, k + 1, Len(POSTS))
            ELSE /\ status' = 404
                 /\ POSTS' = POSTS]_vars

\* The middle one of three posts was deleted.
C6_Witness ==
    /\ op = "delete_post" /\ status = 200
    /\ req.post_id = 2
    /\ Ids(POSTS) = <<1, 3>>

\* C7: update of a stored id returns 200 and replaces only the supplied
\* fields, the id, the position and every other post being unchanged; update
\* of an unknown id returns 404 and changes nothing.
C7_UpdateFrame ==
    [][op' = "update_post"
         => IF \E k \in 1..Len(POSTS) : POSTS[k].id = req'.post_id
            THEN /\ status' = 200
                 /\ Len(POSTS') = Len(POSTS)
                 /\ \A k \in 1..Len(POSTS) :
                        IF POSTS[k].id = req'.post_id
                        THEN /\ POSTS'[k].id = POSTS[k].id
                             /\ POSTS'[k].title =
                                    (IF "title" \in DOMAIN req'.data
                                     THEN req'.data["title"] ELSE POSTS[k].title)
                             /\ POSTS'[k].content =
                                    (IF "content" \in DOMAIN req'.data
                                     THEN req'.data["content"] ELSE POSTS[k].content)
                             /\ body' = POSTS'[k]
                        ELSE POSTS'[k] = POSTS[k]
            ELSE /\ status' = 404
                 /\ POSTS' = POSTS]_vars

\* Post 2 was given a new title by a body without content, which it kept.
C7_Witness ==
    /\ op = "update_post" /\ status = 200
    /\ req.post_id = 2 /\ DOMAIN req.data = {"title"}
    /\ Len(POSTS) = 2
    /\ POSTS[2] = [id |-> 2, title |-> S_A, content |-> S_SecondContent]

\* C8: a list request whose sort parameter is supplied with a value other
\* than title or content returns 400, whatever the direction.
C8_UnknownSortRejected ==
    (op = "get_posts" /\ "sort" \in DOMAIN req.args
        /\ req.args["sort"] \notin {S_title, S_content})
    => status = 400

\* The order of a sorted listing: non-decreasing keys for asc, non-increasing
\* for desc.
Ordered(listing, sort_field, desc) ==
    \A i, j \in 1..Len(listing) :
        i < j => IF desc
                 THEN ~ StrLess(lower(PostField(listing[i], sort_field)),
                                lower(PostField(listing[j], sort_field)))
                 ELSE ~ StrLess(lower(PostField(listing[j], sort_field)),
                                lower(PostField(listing[i], sort_field)))

\* Two listings hold the same records the same number of times.
SameRecords(listing, posts) ==
    /\ Len(listing) = Len(posts)
    /\ \A i \in 1..Len(posts) :
           Cardinality({ j \in 1..Len(listing) : listing[j] = posts[i] })
               = Cardinality({ j \in 1..Len(posts) : posts[j] = posts[i] })

\* Posts whose keys are equal ignoring case come in their storage order.
Stable(listing, posts, sort_field) ==
    \A a, b \in 1..Len(posts) :
        (a < b /\ lower(PostField(posts[a], sort_field)) = lower(PostField(posts[b], sort_field)))
            => \E i, j \in 1..Len(listing) :
                   i < j /\ listing[i] = posts[a] /\ listing[j] = posts[b]

\* C9: for sort in {title, content} and direction asc (also by default) or
\* desc, the listing is a permutation of the collection ordered by the
\* lower-cased sort field, stable in both directions, and the collection
\* itself is unchanged.
C9_SortedListing ==
    [][(op' = "get_posts" /\ "sort" \in DOMAIN req'.args
          /\ req'.args["sort"] \in {S_title, S_content}
          /\ ("direction" \in DOMAIN req'.args => req'.args["direction"] \in {S_asc, S_desc}))
         => /\ status' = 200
            /\ POSTS' = POSTS
            /\ SameRecords(body', POSTS)
            /\ Ordered(body', req'.args["sort"],
                       "direction" \in DOMAIN req'.args /\ req'.args["direction"] = S_desc)
            /\ Stable(body', POSTS, req'.args["sort"])]_vars

\* A descending listing by title of three posts, two of them with the titles
\* "a" and "A", which come in their storage order behind the third.
C9_Witness ==
    /\ op = "get_posts" /\ status = 200
    /\ "sort" \in DOMAIN req.args /\ req.args["sort"] = S_title
    /\ "direction" \in DOMAIN req.args /\ req.args["direction"] = S_desc
    /\ Len(POSTS) = 3
    /\ POSTS[2].title = S_a /\ POSTS[3].title = S_A
    /\ body = <<POSTS[1], POSTS[2], POSTS[3]>>
    /\ POSTS[1].title = S_FirstPost

\* C10: the ids of the collection are strictly increasing in storage order,
\* so the last post holds the largest id.
C10_IdsIncreasing ==
    \A i \in 1..(Len(POSTS) - 1) : POSTS[i].id < POSTS[i + 1].id

\* A post other than the last was deleted from three.
C10_Witness ==
    /\ op = "delete_post" /\ status = 200
    /\ req.post_id = 1
    /\ Ids(POSTS) = <<2, 3>>

====
